---- MODULE Spec2Model ----
(***************************************************************************)
(* cloudshell/cli/configurator.py: CLIServiceConfigurator and              *)
(* AbstractModeConfigurator.                                               *)
(*                                                                         *)
(* The model follows one configurator instance (self) through its          *)
(* construction and its requests.  The three lru_cache wrappers of the     *)
(* class (_password, _pkey, _session_dict) are module-level caches shared  *)
(* by every configurator of the process and keyed by the instance; the     *)
(* other configurators of the process appear through the action            *)
(* OtherConfigurators, which ages self's entries in those caches.          *)
(* Every handler is sequential code and is one atomic action.              *)
(***************************************************************************)
EXTENDS Integers, Sequences, FiniteSets, TLC

VARIABLES
    py3,        \* the interpreter: TRUE for Python 3, FALSE for Python 2 (line 12)
    self,       \* the configurator instance, [alive |-> FALSE] before __init__
    sdCache,    \* self's entry in the lru_cache of _session_dict
    pwCache,    \* self's entry in the lru_cache of _password
    pkCache,    \* self's entry in the lru_cache of _pkey
    pwCalls,    \* invocations of resource_config.password made for self
    pkCalls,    \* invocations of resource_config.private_key made for self
    last        \* the outcome of the latest operation on self

vars == <<py3, self, sdCache, pwCache, pkCache, pwCalls, pkCalls, last>>

(***************************************************************************)
(* Bounds of the exploration.                                              *)
(***************************************************************************)
MaxCalls == 2          \* accessor invocations counted per credential

(***************************************************************************)
(* functools.lru_cache(): the default maxsize of the decorator written     *)
(* `@lru_cache()`.  functools (Python 3) has maxsize=128, the functools32  *)
(* backport imported on Python 2 has maxsize=100.                          *)
(***************************************************************************)
LruMaxsizePy3 == 128
LruMaxsizePy2 == 100

LruMaxsize == IF py3 THEN LruMaxsizePy3 ELSE LruMaxsizePy2

(***************************************************************************)
(* Strings are sequences of characters; str.lower() maps each character.   *)
(***************************************************************************)
LowerChar(c) ==
    CASE c = "A" -> "a" [] c = "C" -> "c" [] c = "E" -> "e" [] c = "H" -> "h"
      [] c = "L" -> "l" [] c = "N" -> "n" [] c = "O" -> "o" [] c = "S" -> "s"
      [] c = "T" -> "t" [] c = "U" -> "u"
      [] OTHER -> c

Lower(s) == [i \in DOMAIN s |-> LowerChar(s[i])]

(***************************************************************************)
(* Session classes.  SSHSession and TelnetSession are the two imported     *)
(* ones; CustomSSHSession stands for a caller's subclass of SSHSession     *)
(* that keeps its SESSION_TYPE.                                            *)
(***************************************************************************)
SessionClasses == {"SSHSession", "TelnetSession", "CustomSSHSession"}

SESSION_TYPE(sess) ==
    CASE sess = "SSHSession" -> <<"S", "S", "H">>
      [] sess = "CustomSSHSession" -> <<"S", "S", "H">>
      [] sess = "TelnetSession" -> <<"T", "E", "L", "N", "E", "T">>

\* class attribute REGISTERED_SESSIONS
REGISTERED_SESSIONS == <<"SSHSession", "TelnetSession">>

(***************************************************************************)
(* Values of the resource configuration.  An accessor either returns a     *)
(* value or raises; a raising accessor is written as the error it raises.  *)
(***************************************************************************)
PasswordError == "PasswordError"
PrivateKeyError == "PrivateKeyError"
AttributeError == "AttributeError"
TypeError == "TypeError"
SessionError == "SessionError"
NoError == "-"
Errors == {PasswordError, PrivateKeyError, AttributeError, TypeError, SessionError}

None == "None"

Str(s) == [none |-> FALSE, chars |-> s]
NoneStr == [none |-> TRUE, chars |-> <<>>]

CliTypes ==
    { Str(<<"S", "S", "H">>),
      Str(<<"T", "e", "l", "n", "e", "t">>),
      Str(<<"A", "u", "t", "o">>),
      Str(<<"c", "o", "n", "s", "o", "l", "e">>),
      Str(<<>>),
      NoneStr }

ResourceConfigs ==
    [ address : {"10.0.0.1"},
      user : {"admin"},
      password : {"pw1", PasswordError},
      private_key : {"key1", PrivateKeyError},
      cli_tcp_port : {"22"},
      cli_connection_type : CliTypes ]

(***************************************************************************)
(* The registered_sessions argument of __init__: None, a sequence of       *)
(* session classes, or a mapping from session class to initializer (None   *)
(* for "no initializer").  A mapping is written as its items in iteration  *)
(* order.                                                                  *)
(***************************************************************************)
DefaultInit == "_initialize_session"
PkeyInit == "_initialize_ssh_session_with_pkey"
CustomInit == "custom_initializer"

Item(sess, init) == [sess |-> sess, init |-> init]
AsList(classes) == [isDict |-> FALSE, items |-> [i \in DOMAIN classes |-> Item(classes[i], None)]]
AsDict(items) == [isDict |-> TRUE, items |-> items]

RegisteredSessionsArgs ==
    { AsList(<<>>),                                      \* None, or an empty list
      AsList(<<"TelnetSession", "SSHSession">>),
      AsList(<<"SSHSession", "CustomSSHSession", "TelnetSession">>),
      AsDict(<<Item("SSHSession", PkeyInit), Item("TelnetSession", None)>>),
      AsDict(<<Item("TelnetSession", CustomInit), Item("CustomSSHSession", PkeyInit),
               Item("SSHSession", None)>>) }

(***************************************************************************)
(* Classes a caller instantiates: CLIServiceConfigurator itself, or a      *)
(* shell derived from AbstractModeConfigurator that overrides some of the  *)
(* two abstract properties.                                                *)
(***************************************************************************)
ModeProperties == {"enable_mode", "config_mode"}

Classes ==
    {[shell |-> FALSE, supplies |-> {}]} \cup
    {[shell |-> TRUE, supplies |-> s] : s \in SUBSET ModeProperties}

(***************************************************************************)
(* A dict is the sequence of its [key, val] items in insertion order.      *)
(***************************************************************************)
DictHas(d, k) == \E i \in DOMAIN d : d[i].key = k

DictGet(d, k, default) ==
    IF DictHas(d, k) THEN d[CHOOSE i \in DOMAIN d : d[i].key = k].val ELSE default

\* d[k] = v: an existing key keeps its place and takes the new value
DictSet(d, k, v) ==
    IF DictHas(d, k)
    THEN [i \in DOMAIN d |-> IF d[i].key = k THEN [key |-> k, val |-> v] ELSE d[i]]
    ELSE Append(d, [key |-> k, val |-> v])

(***************************************************************************)
(* __init__ (line 34): registered_sessions or self.REGISTERED_SESSIONS.    *)
(***************************************************************************)
RegisteredSessionsOf(arg) ==
    IF arg.items = <<>> THEN AsList(REGISTERED_SESSIONS) ELSE arg

\* iterating self._registered_sessions: the classes of a sequence, the keys of a mapping
IterRegistered(reg) == [i \in DOMAIN reg.items |-> reg.items[i].sess]

(***************************************************************************)
(* _session_dict (line 68): {sess.SESSION_TYPE.lower(): [sess] for sess    *)
(* in self._registered_sessions}.                                          *)
(***************************************************************************)
RECURSIVE SessionDictFrom(_, _)
SessionDictFrom(classes, d) ==
    IF classes = <<>> THEN d
    ELSE SessionDictFrom(Tail(classes),
                         DictSet(d, Lower(SESSION_TYPE(Head(classes))), <<Head(classes)>>))

SessionDict(reg) == SessionDictFrom(IterRegistered(reg), <<>>)

(***************************************************************************)
(* lru_cache: self's entry in one cache.  age is the number of other keys  *)
(* used more recently than self's; an entry is evicted when a miss finds   *)
(* the cache full and the entry least recently used, that is when its age  *)
(* would reach maxsize.  A raising call stores nothing.                    *)
(***************************************************************************)
Uncached(empty) == [cached |-> FALSE, val |-> empty, age |-> 0]

\* a call through the wrapper; `value` is what the wrapped function returns, or
\* the error it raises when `raises`
CacheRead(cache, calls, raises, value) ==
    IF cache.cached
    THEN [cache |-> [cache EXCEPT !.age = 0], calls |-> calls,
          raised |-> FALSE, val |-> cache.val]
    ELSE IF raises
    THEN [cache |-> cache, calls |-> calls + 1, raised |-> TRUE, val |-> value]
    ELSE [cache |-> [cached |-> TRUE, val |-> value, age |-> 0], calls |-> calls + 1,
          raised |-> FALSE, val |-> value]

\* k other keys are inserted into the cache
Aged(cache, k, empty) ==
    IF cache.cached /\ cache.age + k < LruMaxsize
    THEN [cache EXCEPT !.age = cache.age + k]
    ELSE Uncached(empty)

(***************************************************************************)
(* The state of one request: the cache entries and counters as the code    *)
(* has left them so far, the sessions built, and the error raised if any.  *)
(***************************************************************************)
Begin ==
    [sd |-> sdCache, pw |-> pwCache, pk |-> pkCache, pwCalls |-> pwCalls,
     pkCalls |-> pkCalls, sessions |-> <<>>, error |-> NoError]

\* the _password property (lines 40-43)
Password(st) ==
    LET r == CacheRead(st.pw, st.pwCalls, self.cfg.password \in Errors, self.cfg.password)
    IN  [st EXCEPT !.pw = r.cache, !.pwCalls = r.calls,
                   !.error = IF r.raised THEN r.val ELSE NoError]

\* the _pkey property (lines 45-48)
Pkey(st) ==
    LET r == CacheRead(st.pk, st.pkCalls, self.cfg.private_key \in Errors, self.cfg.private_key)
    IN  [st EXCEPT !.pk = r.cache, !.pkCalls = r.calls,
                   !.error = IF r.raised THEN r.val ELSE NoError]

\* a session object: the class and the keyword arguments it was constructed with
\* (pkey is None, the classes' default, when the initializer passes none)
Session(sess, password, pkey, by) ==
    [sess |-> sess, host |-> self.cfg.address, username |-> self.cfg.user,
     password |-> password, port |-> self.cfg.cli_tcp_port,
     on_session_start |-> "_on_session_start", pkey |-> pkey, by |-> by]

\* _initialize_session (lines 80-87)
InitializeSession(sess, st) ==
    LET a == Password(st)
    IN  IF a.error # NoError THEN a
        ELSE [a EXCEPT !.sessions = Append(@, Session(sess, a.pw.val, None, DefaultInit))]

\* _initialize_ssh_session_with_pkey (lines 89-97)
InitializeSshSessionWithPkey(sess, st) ==
    LET a == Password(st)
        b == Pkey(a)
    IN  IF a.error # NoError THEN a
        ELSE IF b.error # NoError THEN b
        ELSE [b EXCEPT !.sessions = Append(@, Session(sess, b.pw.val, b.pk.val, PkeyInit))]

\* an initializer of the caller's own: it reads no credential of the configurator
CustomInitializer(sess, st) ==
    [st EXCEPT !.sessions = Append(@, Session(sess, None, None, CustomInit))]

(***************************************************************************)
(* _defined_sessions (lines 99-111).                                       *)
(***************************************************************************)
\* lines 104-109: the initializer chosen for one session class
SessionInitializerMutant(reg, sess) == DefaultInit

SessionInitializer(reg, sess) ==
    IF reg.isDict
    THEN LET got == DictGet([i \in DOMAIN reg.items |->
                               [key |-> reg.items[i].sess, val |-> reg.items[i].init]],
                            sess, None)
         IN  IF got # None THEN got ELSE DefaultInit
    ELSE DefaultInit

Initialize(init, sess, st) ==
    CASE init = DefaultInit -> InitializeSession(sess, st)
      [] init = PkeyInit -> InitializeSshSessionWithPkey(sess, st)
      [] init = CustomInit -> CustomInitializer(sess, st)

RECURSIVE BuildSessions(_, _, _)
BuildSessions(reg, classes, st) ==
    IF classes = <<>> \/ st.error # NoError THEN st
    ELSE BuildSessions(reg, Tail(classes),
                       Initialize(SessionInitializer(reg, Head(classes)), Head(classes), st))

\* the key looked up in _session_dict: self._cli_type.lower()
LookupKeyMutant(cliType) == cliType.chars

LookupKey(cliType) == Lower(cliType.chars)

\* the default of the lookup: self._registered_sessions
LookupDefaultMutant(reg) == REGISTERED_SESSIONS

LookupDefault(reg) == IterRegistered(reg)

\* lines 101-103: the classes the loop runs over
Candidates(sd, reg, cliType) == DictGet(sd, LookupKey(cliType), LookupDefault(reg))

DefinedSessions(st0) ==
    LET reg == RegisteredSessionsOf(self.reg)
        \* self._session_dict is evaluated first, through its lru_cache
        r  == CacheRead(st0.sd, 0, FALSE, SessionDict(reg))
        st == [st0 EXCEPT !.sd = r.cache]
    IN  IF self.cfg.cli_connection_type.none
        THEN [st EXCEPT !.error = AttributeError]     \* None has no .lower()
        ELSE BuildSessions(reg, Candidates(r.val, reg, self.cfg.cli_connection_type), st)

(***************************************************************************)
(* AbstractModeConfigurator (lines 126-137): the abstract properties that  *)
(* ABCMeta finds unimplemented in a class.  ABCMeta collects the names     *)
(* whose value has __isabstractmethod__ set; a property wrapping an        *)
(* abstractmethod reports it on Python 3 only (Python 2 has                *)
(* abc.abstractproperty for that), so on Python 2 the set is empty.        *)
(***************************************************************************)
AbstractMethods(cls) ==
    IF cls.shell /\ py3 THEN ModeProperties \ cls.supplies ELSE {}

\* self.enable_mode / self.config_mode: the shell's token, or the None that the
\* abstract property's body (`pass`) returns
EnableModeToken == "ENABLE_MODE"
ConfigModeToken == "CONFIG_MODE"

ModeProperty(name) ==
    IF name \in self.cls.supplies
    THEN (IF name = "enable_mode" THEN EnableModeToken ELSE ConfigModeToken)
    ELSE None

CommandModes == {"DEFAULT_MODE", EnableModeToken}

\* what cli.get_session does when called: it returns a handle or raises
CliOutcomes == {"handle1", SessionError}

(***************************************************************************)
(* The record kept of the latest operation.                                *)
(***************************************************************************)
Record(op, cls, outcome, error, ret) ==
    [op |-> op, cls |-> cls, outcome |-> outcome, error |-> error, ret |-> ret,
     calls |-> 0, mode |-> None, sessions |-> <<>>, handle |-> None]

Returned(op, ret) == Record(op, self.cls, "returned", NoError, ret)
Raised(op, error) == Record(op, self.cls, "raised", error, None)

\* cli.get_session(sessions, command_mode, logger), and get_cli_service returning its result
CallGetSession(op, mode, st, collab) ==
    [ (IF collab \in Errors THEN Raised(op, collab) ELSE Returned(op, collab))
        EXCEPT !.calls = 1, !.mode = mode, !.sessions = st.sessions,
               !.handle = IF collab \in Errors THEN None ELSE collab ]

\* get_cli_service (lines 113-123) once _defined_sessions has run
GetCliServiceOutcomeMutant(op, mode, st, collab) == CallGetSession(op, mode, st, collab)

GetCliServiceOutcome(op, mode, st, collab) ==
    IF st.error # NoError THEN Raised(op, st.error)
    ELSE CallGetSession(op, mode, st, collab)

\* enable_mode_service / config_mode_service (lines 139-143): the mode handed on
EnableModeServiceArg == ModeProperty("enable_mode")

ConfigModeServiceArgMutant == ModeProperty("enable_mode")

ConfigModeServiceArg == ModeProperty("config_mode")

(***************************************************************************)
(* Initial state: no configurator yet, nothing cached for it.              *)
(***************************************************************************)
Init ==
    /\ py3 \in BOOLEAN
    /\ self = [alive |-> FALSE]
    /\ sdCache = Uncached(<<>>)
    /\ pwCache = Uncached(None)
    /\ pkCache = Uncached(None)
    /\ pwCalls = 0
    /\ pkCalls = 0
    /\ last = Record("none", [shell |-> FALSE, supplies |-> {}], "returned", NoError, None)

(***************************************************************************)
(* cls(resource_config, logger, registered_sessions=arg).  Instantiating a *)
(* class with unimplemented abstract methods raises TypeError before       *)
(* __init__ runs.                                                          *)
(***************************************************************************)
Construct(cls, cfg, arg) ==
    /\ ~self.alive
    /\ IF AbstractMethods(cls) # {}
       THEN /\ self' = self
            /\ last' = Record("__init__", cls, "raised", TypeError, None)
       ELSE /\ self' = [alive |-> TRUE, cls |-> cls, cfg |-> cfg, reg |-> arg]
            /\ last' = Record("__init__", cls, "returned", NoError, None)
    /\ UNCHANGED <<py3, sdCache, pwCache, pkCache, pwCalls, pkCalls>>

\* a read of self._password
ReadPassword ==
    /\ self.alive
    /\ pwCalls < MaxCalls
    /\ LET st == Password(Begin)
       IN  /\ pwCache' = st.pw
           /\ pwCalls' = st.pwCalls
           /\ last' = IF st.error # NoError THEN Raised("_password", st.error)
                      ELSE Returned("_password", st.pw.val)
    /\ UNCHANGED <<py3, self, sdCache, pkCache, pkCalls>>

\* a read of self._pkey
ReadPkey ==
    /\ self.alive
    /\ pkCalls < MaxCalls
    /\ LET st == Pkey(Begin)
       IN  /\ pkCache' = st.pk
           /\ pkCalls' = st.pkCalls
           /\ last' = IF st.error # NoError THEN Raised("_pkey", st.error)
                      ELSE Returned("_pkey", st.pk.val)
    /\ UNCHANGED <<py3, self, sdCache, pwCache, pwCalls>>

\* the body shared by the three entry points: get_cli_service(mode)
Request(op, mode, collab) ==
    /\ self.alive
    /\ pwCalls < MaxCalls
    /\ pkCalls < MaxCalls
    /\ LET st == DefinedSessions(Begin)
       IN  /\ sdCache' = st.sd
           /\ pwCache' = st.pw
           /\ pkCache' = st.pk
           /\ pwCalls' = st.pwCalls
           /\ pkCalls' = st.pkCalls
           /\ last' = GetCliServiceOutcome(op, mode, st, collab)
    /\ UNCHANGED <<py3, self>>

GetCliService(mode, collab) == Request("get_cli_service", mode, collab)

EnableModeService(collab) ==
    /\ self.alive
    /\ self.cls.shell
    /\ Request("enable_mode_service", EnableModeServiceArg, collab)

ConfigModeService(collab) ==
    /\ self.alive
    /\ self.cls.shell
    /\ Request("config_mode_service", ConfigModeServiceArg, collab)

(***************************************************************************)
(* k other configurators of the process each serve one request: each       *)
(* reads its _session_dict and its _password, and its _pkey when it builds *)
(* a session with the key initializer.  Their keys enter the caches.  The  *)
(* batches are of the two sizes around the caches' capacity.               *)
(***************************************************************************)
OtherBatchSizes == {LruMaxsize - 1, LruMaxsize}

OtherConfigurators ==
    \E k \in OtherBatchSizes, withPkey \in BOOLEAN :
        /\ sdCache' = Aged(sdCache, k, <<>>)
        /\ pwCache' = Aged(pwCache, k, None)
        /\ pkCache' = IF withPkey THEN Aged(pkCache, k, None) ELSE pkCache
        /\ UNCHANGED <<py3, self, pwCalls, pkCalls, last>>

Next ==
    \/ \E cls \in Classes, cfg \in ResourceConfigs, arg \in RegisteredSessionsArgs :
          Construct(cls, cfg, arg)
    \/ ReadPassword
    \/ ReadPkey
    \/ \E mode \in CommandModes, collab \in CliOutcomes : GetCliService(mode, collab)
    \/ \E collab \in CliOutcomes : EnableModeService(collab)
    \/ \E collab \in CliOutcomes : ConfigModeService(collab)
    \/ OtherConfigurators

Spec == Init /\ [][Next]_vars

(***************************************************************************)
(* Vocabulary of the properties.                                           *)
(***************************************************************************)
Requests == {"get_cli_service", "enable_mode_service", "config_mode_service"}
ModeServices == {"enable_mode_service", "config_mode_service"}

\* the latest operation is a request that handed a candidate list to cli.get_session
ListBuilt == self.alive /\ last.op \in Requests /\ last.calls = 1

SessionClassesOf(sessions) == [i \in DOMAIN sessions |-> sessions[i].sess]

\* the registered classes in registration order
RegistryOrder ==
    IF self.reg.items = <<>> THEN REGISTERED_SESSIONS
    ELSE [i \in DOMAIN self.reg.items |-> self.reg.items[i].sess]

\* the positions of the registry whose class is registered under the name `key`
RegisteredUnder(key) ==
    {i \in DOMAIN RegistryOrder : Lower(SESSION_TYPE(RegistryOrder[i])) = key}

CliType == self.cfg.cli_connection_type

\* the connection type names a key of the registry, case-insensitively
Recognized == ~CliType.none /\ RegisteredUnder(Lower(CliType.chars)) # {}

Max(S) == CHOOSE x \in S : \A y \in S : y <= x

\* the sequence the registry holds for a recognized connection type
RegisteredSequence == <<RegistryOrder[Max(RegisteredUnder(Lower(CliType.chars)))]>>

\* the initializer the caller's mapping gives a class, None when there is none
OverrideOf(sess) ==
    IF self.reg.isDict /\ \E i \in DOMAIN self.reg.items : self.reg.items[i].sess = sess
    THEN self.reg.items[CHOOSE i \in DOMAIN self.reg.items : self.reg.items[i].sess = sess].init
    ELSE None

\* session classes that authenticate with a private key: the SSH classes, which
\* _initialize_ssh_session_with_pkey is written for
KeyBasedClasses == {"SSHSession", "CustomSSHSession"}

(***************************************************************************)
(* C1: for every connection-type string whose lowercase form is not a key  *)
(* of the registry ("", "Auto", "console"), the candidate list has exactly *)
(* one session per registered class, in registration order.                *)
(***************************************************************************)
C1_UnrecognizedGivesFullOrder ==
    (ListBuilt /\ ~CliType.none /\ ~Recognized)
        => SessionClassesOf(last.sessions) = RegistryOrder

C1_Witness ==
    /\ ListBuilt /\ ~CliType.none /\ ~Recognized
    /\ CliType.chars = <<"c", "o", "n", "s", "o", "l", "e">>
    /\ Len(last.sessions) = 3

(***************************************************************************)
(* C2: for every connection-type string that matches a registry key        *)
(* case-insensitively, the candidate classes are exactly the sequence      *)
(* registered for that key, and none is registered under another key.      *)
(***************************************************************************)
C2_RecognizedGivesRegisteredSequence ==
    (ListBuilt /\ Recognized)
        => /\ SessionClassesOf(last.sessions) = RegisteredSequence
           /\ \A i \in DOMAIN last.sessions :
                 Lower(SESSION_TYPE(last.sessions[i].sess)) = Lower(CliType.chars)

C2_Witness ==
    /\ ListBuilt /\ Recognized
    /\ CliType.chars # Lower(CliType.chars)
    /\ Len(RegistryOrder) = 3
    /\ SessionClassesOf(last.sessions) = <<"CustomSSHSession">>

(***************************************************************************)
(* C3: whatever the instance and the other configurators of the process do *)
(* next, a password or private key once cached for the instance is never   *)
(* invalidated and its accessor is never invoked for the instance again:   *)
(* the accessor that has returned a value was invoked once, for life.      *)
(***************************************************************************)
C3_CachedOnceForLife ==
    [][ /\ pwCache.cached => (pwCache'.cached /\ pwCalls' = pwCalls)
        /\ pkCache.cached => (pkCache'.cached /\ pkCalls' = pkCalls) ]_vars

\* the same for every read, a raising accessor included: at most one invocation
C3_AtMostOneInvocation == pwCalls <= 1 /\ pkCalls <= 1

(***************************************************************************)
(* C4: enable_mode_service and config_mode_service each make exactly one   *)
(* call of cli.get_session, with the shell's enable_mode, respectively     *)
(* config_mode, with the candidate list _defined_sessions produces at that *)
(* moment, and return the handle of cli.get_session unchanged.             *)
(***************************************************************************)
C4_ModeServicesDelegate ==
    (self.alive /\ last.op \in ModeServices)
        => /\ last.calls <= 1
           /\ DefinedSessions(Begin).error = NoError
                 => /\ last.calls = 1
                    /\ last.sessions = DefinedSessions(Begin).sessions
                    /\ last.mode = ModeProperty(IF last.op = "enable_mode_service"
                                                THEN "enable_mode" ELSE "config_mode")
                    /\ last.outcome = "returned" => (last.ret = last.handle /\ last.ret # None)
                    /\ last.outcome = "raised" => last.error = SessionError

C4_Witness ==
    /\ self.alive /\ last.op = "config_mode_service"
    /\ last.calls = 1 /\ last.outcome = "returned"
    /\ last.mode = ConfigModeToken
    /\ Len(last.sessions) = 2

(***************************************************************************)
(* C5: a shell class that does not supply both enable_mode and config_mode *)
(* is rejected when it is instantiated: no instance of it ever exists.     *)
(***************************************************************************)
C5_IncompleteShellNeverExists ==
    /\ (self.alive /\ self.cls.shell) => self.cls.supplies = ModeProperties
    /\ (last.op = "__init__" /\ last.cls.shell /\ last.cls.supplies # ModeProperties)
          => (last.outcome = "raised" /\ last.error = TypeError)

(***************************************************************************)
(* C6: resolving the connection type never fails: for every value of       *)
(* cli_connection_type, an unset (None) one included, building the list    *)
(* raises no error of its own, and for a value that is not recognized the  *)
(* list is the full default-order one.                                     *)
(***************************************************************************)
C6_ResolutionNeverFails ==
    (self.alive /\ last.op \in Requests)
        => /\ last.error # AttributeError
           /\ (~Recognized /\ last.error \notin {PasswordError, PrivateKeyError})
                 => (last.calls = 1 /\ SessionClassesOf(last.sessions) = RegistryOrder)

(***************************************************************************)
(* C7: with no initializer override for it, the session of a class that    *)
(* authenticates with a private key is built by the key-aware initializer  *)
(* and carries the configuration's private key; the session of any other   *)
(* class is built by the default initializer and carries no private key.   *)
(***************************************************************************)
C7_KeyBasedClassesGetTheKey ==
    ListBuilt =>
        \A i \in DOMAIN last.sessions :
            LET d == last.sessions[i]
            IN  (OverrideOf(d.sess) = None /\ self.cfg.private_key \notin Errors)
                    => IF d.sess \in KeyBasedClasses
                       THEN d.by = PkeyInit /\ d.pkey = self.cfg.private_key
                       ELSE d.by = DefaultInit /\ d.pkey = None

(***************************************************************************)
(* C8: the i-th session of a candidate list is built from the i-th class   *)
(* of the resolved sequence, and its password and private-key fields equal *)
(* what the resource configuration holds for password and private_key.     *)
(* (Stated for the sessions the configurator's own initializers build, and *)
(* the private key for the classes that take one.)                         *)
(***************************************************************************)
C8_OrderAndCredentials ==
    ListBuilt =>
        /\ SessionClassesOf(last.sessions) =
              IF Recognized THEN RegisteredSequence ELSE RegistryOrder
        /\ \A i \in DOMAIN last.sessions :
              LET d == last.sessions[i]
              IN  d.by # CustomInit
                     => /\ d.password = self.cfg.password
                        /\ (d.sess \in KeyBasedClasses /\ self.cfg.private_key \notin Errors)
                              => d.pkey = self.cfg.private_key

(***************************************************************************)
(* C9: when the transports are registered as a mapping from class to       *)
(* initializer, a candidate class with an initializer in the mapping is    *)
(* built by that initializer, and one without by the default initializer.  *)
(***************************************************************************)
C9_MappingInitializerWins ==
    (ListBuilt /\ self.reg.isDict /\ self.reg.items # <<>>)
        => \A i \in DOMAIN last.sessions :
              LET d == last.sessions[i]
              IN  d.by = IF OverrideOf(d.sess) # None THEN OverrideOf(d.sess) ELSE DefaultInit

C9_Witness ==
    /\ ListBuilt /\ self.reg.isDict
    /\ \E i, j \in DOMAIN last.sessions :
          /\ last.sessions[i].by = CustomInit
          /\ last.sessions[j].by = PkeyInit
    /\ \E i \in DOMAIN last.sessions : last.sessions[i].by = DefaultInit

\* the classes the request runs over, and the first accessor error met in building them
ResolvedOrder == IF Recognized THEN RegisteredSequence ELSE RegistryOrder

ReadsPassword(sess) == OverrideOf(sess) \in {None, PkeyInit}
ReadsPkey(sess) == OverrideOf(sess) = PkeyInit

RECURSIVE FirstAccessorError(_)
FirstAccessorError(classes) ==
    IF classes = <<>> THEN NoError
    ELSE IF ReadsPassword(Head(classes)) /\ self.cfg.password \in Errors
         THEN self.cfg.password
    ELSE IF ReadsPkey(Head(classes)) /\ self.cfg.private_key \in Errors
         THEN self.cfg.private_key
    ELSE FirstAccessorError(Tail(classes))

(***************************************************************************)
(* C10: if the password or private_key accessor raises while a candidate   *)
(* list is being built, the request fails with that same error,            *)
(* cli.get_session is not called and no handle is returned.                *)
(***************************************************************************)
C10_AccessorErrorPropagates ==
    (self.alive /\ last.op \in Requests /\ ~CliType.none
       /\ FirstAccessorError(ResolvedOrder) # NoError)
        => /\ last.outcome = "raised"
           /\ last.error = FirstAccessorError(ResolvedOrder)
           /\ last.calls = 0
           /\ last.ret = None /\ last.handle = None

C10_Witness ==
    /\ self.alive /\ last.op = "enable_mode_service"
    /\ self.cfg.password \notin Errors
    /\ last.outcome = "raised" /\ last.error = PrivateKeyError
    /\ last.calls = 0

====
